---- MODULE Spec2Model ----
(***************************************************************************)
(* Model of the render loop of server/loader/loader.go (NewLoader,         *)
(* Loader.Run, Loader.LoadApplet, Loader.GetSchema,                        *)
(* Loader.CallSchemaHandler, Loader.loadApplet,                            *)
(* Loader.markInitialLoadComplete) together with the consumer of the       *)
(* updates channel, Browser.updateWatcher, and the hub it broadcasts to    *)
(* (fanout.Fanout, which Browser.websocketHandler registers viewers with). *)
(*                                                                         *)
(* Every goroutine is a process with a position: the loop (pc), the        *)
(* LoadApplet callers (cpc), the GetSchema / CallSchemaHandler callers     *)
(* (rpc), updateWatcher (wpc).  Channels are FIFO sequences with a         *)
(* capacity.                                                               *)
(***************************************************************************)
EXTENDS Naturals, Sequences, FiniteSets

\* ------------------------------------------------------------------ bounds

\* Number of goroutines that call LoadApplet, one call each.
NumCallers == 2

\* Number of goroutines that call GetSchema / CallSchemaHandler (repeatedly).
NumReaders == 1

\* Number of file-change signals the watcher of the file system sends.
MaxFileChanges == 1

\* Capacity of the channels the Loader makes (configChanges,
\* requestedChanges, resultsChan) and of fileChanges.  The source makes them
\* with 100 slots; the model scales that down to what NumCallers callers can
\* fill.
ChanCap == 2

\* Capacity of updatesChan, which the Loader is given.
UpdatesCap == 1

\* Number of websocket connections that viewers open.
NumConns == 2

\* Capacity of the send queue of one connection of the hub.
QueueCap == 1

Callers == 1 .. NumCallers
Readers == 1 .. NumReaders
Conns == 1 .. NumConns

\* ----------------------------------------------------------- configurations

\* A map[string]string is the set of its <<key, value>> entries.  The
\* configurations used have at most one entry.
EmptyConfig == {}

\* The configuration caller c submits: {"x": "1"}, {"y": "2"}, ...: the
\* callers use different keys, so that a configuration is not just an
\* overwrite of the one before it.
Digits == << "1", "2", "3", "4", "5", "6", "7", "8", "9" >>

Keys == << "x", "y", "z", "u", "v", "w", "s", "t", "r" >>

ConfigOf(c) == { << Keys[c], Digits[c] >> }

\* json.Marshal of a map[string]string with at most one entry.
Marshal(c) ==
    IF c = {} THEN "{}"
    ELSE LET e == CHOOSE e \in c : TRUE
         IN "{\"" \o e[1] \o "\":\"" \o e[2] \o "\"}"

\* ------------------------------------------------------------------ applets

\* runtime.Applet{}: the zero applet, no schema.
ZeroApplet == [loaded |-> FALSE, SchemaJSON |-> ""]

\* The applet loadScript makes of a script with the given schema.
LoadedApplet(s) == [loaded |-> TRUE, SchemaJSON |-> s]

\* What SchemaJSON a script can have: none, or a schema document.
Schemas == {"", "schema"}

\* -------------------------------------------------------------------- state

VARIABLES
    watch,             \* Loader.watch
    renderGif,         \* Loader.renderGif
    configOutFile,     \* Loader.configOutFile # ""
    applet,            \* Loader.applet
    initialLoad,       \* Loader.initialLoad: "open" or "closed"
    configChanges,     \* Loader.configChanges
    requestedChanges,  \* Loader.requestedChanges; each entry is tagged with its sender
    fileChanges,       \* Loader.fileChanges: number of queued signals
    updatesChan,       \* Loader.updatesChan
    resultsChan,       \* Loader.resultsChan
    pc,                \* position of the goroutine that executes Run
    config,            \* Run's local config
    up,                \* Run's local up
    kind,              \* which select case the loop is in: "none", "request", "file"
    owner,             \* the caller whose trigger started the cycle (0: none)
    loaded,            \* loadApplet's local app, err of loadScript
    expired,           \* the context of the running execution is past its deadline
    debugFile,         \* contents of the file at configOutFile
    cpc, ccfg, cres,   \* LoadApplet callers: position, argument, received Update
    rpc, rop, rres,    \* GetSchema / CallSchemaHandler callers
    nLoads,            \* number of loadScript calls so far
    nCycles,           \* number of cycles started so far
    nFileSent,         \* number of file-change signals sent so far
    nCloses,           \* number of close(initialLoad) executed
    closePanic,        \* close of a closed channel happened
    inFlight,          \* number of cycles started and not finished
    nSentUpdates,      \* number of sends executed on updatesChan
    nSentResults,      \* number of sends executed on resultsChan
    lastSent,          \* what the cycle in progress sent on updatesChan
    rwaited,           \* rwaited[r]: r's call found the gate pending
    wpc,               \* position of the goroutine that executes updateWatcher
    wup,               \* updateWatcher's local up
    taken,             \* the Updates updateWatcher has received, in order
    bcast,             \* the events Broadcast has been called with, in order
    cstate,            \* cstate[k]: connection k is "none", "live" or "removed"
    queue,             \* queue[k]: the send queue of connection k in the hub
    got,               \* got[k]: the events written to connection k, in order
    regAt              \* regAt[k]: Len(bcast) when k was registered

vars == << watch, renderGif, configOutFile, applet, initialLoad, configChanges,
           requestedChanges, fileChanges, updatesChan, resultsChan, pc, config,
           up, kind, owner, loaded, expired, debugFile, cpc, ccfg, cres,
           rpc, rop, rres, nLoads, nCycles, nFileSent, nCloses, closePanic,
           inFlight, nSentUpdates, nSentResults, lastSent, rwaited,
           wpc, wup, taken, bcast, cstate, queue, got, regAt >>

WatcherVars == << wpc, wup, taken, bcast >>
ConnVars    == << cstate, queue, got, regAt >>
HubVars     == << WatcherVars, ConnVars >>

\* ------------------------------------------------------------------ updates

NoImage == << >>

\* Update{}: the zero value.  owner records whose request trigger started the
\* cycle that built the Update (0: a file change); the code does not carry it.
ZeroUpdate ==
    [Image |-> NoImage, ImageType |-> "", Schema |-> "", Err |-> "", owner |-> 0]

ImageTypeOf(gif) == IF gif THEN "gif" ELSE "webp"

\* Mutant of RequestUpdate: the error is logged but not stored in up.Err.
RequestUpdateDropsErr(img, err, gif, own) ==
    IF err # ""
    THEN [ZeroUpdate EXCEPT !.owner = own]
    ELSE [ZeroUpdate EXCEPT !.Image = img, !.ImageType = ImageTypeOf(gif),
                            !.owner = own]

\* Run, case <-l.requestedChanges: the Update built from loadApplet's result.
RequestUpdate(img, err, gif, own) ==
    IF err # ""
    THEN [ZeroUpdate EXCEPT !.Err = err, !.owner = own]
    ELSE [ZeroUpdate EXCEPT !.Image = img, !.ImageType = ImageTypeOf(gif),
                            !.owner = own]

\* Mutant of FileUpdate: up.Schema is set after the if, for a failure too.
FileUpdateSchemaAlways(img, err, gif, schema) ==
    IF err # ""
    THEN [ZeroUpdate EXCEPT !.Err = err, !.Schema = schema]
    ELSE [ZeroUpdate EXCEPT !.Image = img, !.ImageType = ImageTypeOf(gif),
                            !.Schema = schema]

\* Run, case <-l.fileChanges: the Update built from loadApplet's result.
FileUpdate(img, err, gif, schema) ==
    IF err # ""
    THEN [ZeroUpdate EXCEPT !.Err = err]
    ELSE [ZeroUpdate EXCEPT !.Image = img, !.ImageType = ImageTypeOf(gif),
                            !.Schema = schema]

\* --------------------------------------------------------------- Ready Gate

\* close(ch): closing a closed channel panics.
CloseChan(ch) == [ch |-> "closed", closed |-> TRUE, panic |-> (ch = "closed")]

\* Mutant of markInitialLoadComplete: close without looking.
markInitialLoadCompleteUnguarded(ch) == CloseChan(ch)

\* markInitialLoadComplete: a receive on a closed channel succeeds, so the
\* select closes the channel only when it is still open.  The result is the
\* new state of the channel, whether close() was executed and whether it
\* panicked.
markInitialLoadComplete(ch) ==
    IF ch = "closed"
    THEN [ch |-> ch, closed |-> FALSE, panic |-> FALSE]
    ELSE CloseChan(ch)

\* --------------------------------------------------------------------- Init

\* The arguments of NewLoader the model is run with: watching, WebP, with a
\* debug file; and not watching, GIF, without one.
LoaderArguments ==
    { [watch |-> TRUE,  renderGif |-> FALSE, configOutFile |-> TRUE],
      [watch |-> FALSE, renderGif |-> TRUE,  configOutFile |-> FALSE] }

\* The state when NewLoader has returned a Loader.  Without watch the script
\* was loaded and the gate released in NewLoader; with watch neither.
Init ==
    /\ \E a \in LoaderArguments :
         /\ watch = a.watch
         /\ renderGif = a.renderGif
         /\ configOutFile = a.configOutFile
    /\ \E s \in Schemas :
         applet = IF watch THEN ZeroApplet ELSE LoadedApplet(s)
    /\ initialLoad = IF watch THEN "open" ELSE markInitialLoadComplete("open").ch
    /\ nCloses = IF watch THEN 0 ELSE 1
    /\ closePanic = FALSE
    /\ nLoads = IF watch THEN 0 ELSE 1
    /\ configChanges = << >>
    /\ requestedChanges = << >>
    /\ fileChanges = 0
    /\ updatesChan = << >>
    /\ resultsChan = << >>
    /\ pc = "select"
    /\ config = EmptyConfig
    /\ up = ZeroUpdate
    /\ kind = "none"
    /\ owner = 0
    /\ loaded = [app |-> ZeroApplet, err |-> ""]
    /\ expired = FALSE
    /\ debugFile = ""
    /\ cpc = [c \in Callers |-> "idle"]
    /\ ccfg = [c \in Callers |-> EmptyConfig]
    /\ cres = [c \in Callers |-> ZeroUpdate]
    /\ rpc = [r \in Readers |-> "idle"]
    /\ rop = [r \in Readers |-> "GetSchema"]
    /\ rres = [r \in Readers |-> << >>]
    /\ nCycles = 0
    /\ nFileSent = 0
    /\ inFlight = 0
    /\ nSentUpdates = 0
    /\ nSentResults = 0
    /\ lastSent = ZeroUpdate
    /\ rwaited = [r \in Readers |-> FALSE]
    /\ wpc = "recv"
    /\ wup = ZeroUpdate
    /\ taken = << >>
    /\ bcast = << >>
    /\ cstate = [k \in Conns |-> "none"]
    /\ queue = [k \in Conns |-> << >>]
    /\ got = [k \in Conns |-> << >>]
    /\ regAt = [k \in Conns |-> 0]

\* ------------------------------------------------- the loop: Loader.Run

LoopLocals == << up, kind, owner, loaded, expired >>
CallerVars == << cpc, ccfg, cres >>
ReaderVars == << rpc, rop, rres, rwaited >>
SendVars   == << nSentUpdates, nSentResults, lastSent >>
Settings   == << watch, renderGif, configOutFile >>
GateVars   == << initialLoad, nCloses, closePanic >>

\* Mutant of LoadAppletEntry: loadApplet reloads whether watching or not.
LoadAppletEntryAlwaysReloads == "loadScript"

\* loadApplet starts with the reload when watching, else with the execution.
LoadAppletEntry == IF watch THEN "loadScript" ELSE "run"

\* Mutant of RunSelectConfig: a configuration update also renders.
RunSelectConfigRenders ==
    /\ pc = "select"
    /\ configChanges # << >>
    /\ config' = Head(configChanges)
    /\ configChanges' = Tail(configChanges)
    /\ kind' = "file"
    /\ nCycles' = nCycles + 1
    /\ inFlight' = inFlight + 1
    /\ pc' = LoadAppletEntry
    /\ UNCHANGED << HubVars, Settings, applet, GateVars, requestedChanges, fileChanges,
                    updatesChan, resultsChan, up, owner, loaded, expired,
                    debugFile, CallerVars, ReaderVars, nLoads, nFileSent,
                    SendVars >>

\* Mutant of RunSelectConfig: the update is merged into the retained
\* configuration, key by key.
RunSelectConfigMerges ==
    /\ pc = "select"
    /\ configChanges # << >>
    /\ config' = { e \in config : \A f \in Head(configChanges) : f[1] # e[1] }
                     \cup Head(configChanges)
    /\ configChanges' = Tail(configChanges)
    /\ UNCHANGED << HubVars, Settings, applet, GateVars, requestedChanges,
                    fileChanges, updatesChan, resultsChan, pc, LoopLocals,
                    debugFile, CallerVars, ReaderVars, nLoads, nCycles,
                    nFileSent, inFlight, SendVars >>

\* case c := <-l.configChanges: config = c
RunSelectConfig ==
    /\ pc = "select"
    /\ configChanges # << >>
    /\ config' = Head(configChanges)
    /\ configChanges' = Tail(configChanges)
    /\ UNCHANGED << HubVars, Settings, applet, GateVars, requestedChanges, fileChanges,
                    updatesChan, resultsChan, pc, LoopLocals, debugFile,
                    CallerVars, ReaderVars, nLoads, nCycles, nFileSent,
                    inFlight, SendVars >>

\* Mutant of RunSelectRequest: the file is opened for appending.
RunSelectRequestAppends ==
    /\ pc = "select"
    /\ requestedChanges # << >>
    /\ requestedChanges' = Tail(requestedChanges)
    /\ kind' = "request"
    /\ owner' = Head(requestedChanges)
    /\ nCycles' = nCycles + 1
    /\ up' = ZeroUpdate
    /\ debugFile' = IF configOutFile THEN debugFile \o Marshal(config)
                                     ELSE debugFile
    /\ expired' = FALSE
    /\ pc' = LoadAppletEntry
    /\ inFlight' = inFlight + 1
    /\ UNCHANGED << HubVars, Settings, applet, GateVars, configChanges,
                    fileChanges, updatesChan, resultsChan, config, loaded,
                    CallerVars, ReaderVars, nLoads, nFileSent, SendVars >>

\* case <-l.requestedChanges: marshal config, write it to configOutFile when
\* one is set, and enter loadApplet(config).  The write is taken to succeed:
\* a failed write panics and ends the process, loop and callers together.
RunSelectRequest ==
    /\ pc = "select"
    /\ requestedChanges # << >>
    /\ requestedChanges' = Tail(requestedChanges)
    /\ kind' = "request"
    /\ owner' = Head(requestedChanges)
    /\ nCycles' = nCycles + 1
    /\ up' = ZeroUpdate
    /\ debugFile' = IF configOutFile THEN Marshal(config) ELSE debugFile
    /\ expired' = FALSE
    /\ pc' = LoadAppletEntry
    /\ inFlight' = inFlight + 1
    /\ UNCHANGED << HubVars, Settings, applet, GateVars, configChanges, fileChanges,
                    updatesChan, resultsChan, config, loaded,
                    CallerVars, ReaderVars, nLoads, nFileSent, SendVars >>

\* case <-l.fileChanges: enter loadApplet(config).
RunSelectFile ==
    /\ pc = "select"
    /\ fileChanges > 0
    /\ fileChanges' = fileChanges - 1
    /\ kind' = "file"
    /\ owner' = 0
    /\ nCycles' = nCycles + 1
    /\ up' = ZeroUpdate
    /\ expired' = FALSE
    /\ pc' = LoadAppletEntry
    /\ inFlight' = inFlight + 1
    /\ UNCHANGED << HubVars, Settings, applet, GateVars, configChanges, requestedChanges,
                    updatesChan, resultsChan, config, loaded, debugFile,
                    CallerVars, ReaderVars, nLoads, nFileSent, SendVars >>

\* loadApplet returns (img, err) to Run, which builds up from it.
BuildUpdate(img, err) ==
    IF kind = "request"
    THEN RequestUpdate(img, err, renderGif, owner)
    ELSE FileUpdate(img, err, renderGif, applet.SchemaJSON)

\* Mutant of LoadAppletReturns: Run returns the error, which ends the loop.
LoadAppletReturnsOrStops(img, err) ==
    /\ up' = BuildUpdate(img, err)
    /\ pc' = IF err # "" THEN "stopped" ELSE "sendUpdates"

LoadAppletReturns(img, err) ==
    /\ up' = BuildUpdate(img, err)
    /\ pc' = "sendUpdates"

\* app, err := loadScript("app-id", l.fs)
LoadScript ==
    /\ pc = "loadScript"
    /\ nLoads' = nLoads + 1
    /\ \/ \E s \in Schemas :
            loaded' = [app |-> LoadedApplet(s), err |-> ""]
       \/ loaded' = [app |-> ZeroApplet, err |-> "load"]
    /\ pc' = "mark"
    /\ UNCHANGED << HubVars, Settings, applet, GateVars, configChanges, requestedChanges,
                    fileChanges, updatesChan, resultsChan, config, up, kind,
                    owner, expired, debugFile, CallerVars, ReaderVars,
                    nCycles, nFileSent,
                    inFlight, SendVars >>

\* Mutant of MarkLoaded: the gate is released only when the load succeeded.
MarkLoadedOnSuccess ==
    /\ pc = "mark"
    /\ LET m == IF loaded.err # ""
                THEN [ch |-> initialLoad, closed |-> FALSE, panic |-> FALSE]
                ELSE markInitialLoadComplete(initialLoad)
       IN /\ initialLoad' = m.ch
          /\ nCloses' = IF m.closed THEN nCloses + 1 ELSE nCloses
          /\ closePanic' = (closePanic \/ m.panic)
    /\ IF loaded.err # ""
       THEN LoadAppletReturns(NoImage, loaded.err)
       ELSE pc' = "assign" /\ up' = up
    /\ UNCHANGED << HubVars, Settings, applet, configChanges, requestedChanges,
                    fileChanges, updatesChan, resultsChan, config, kind,
                    owner, loaded, expired, debugFile, CallerVars, ReaderVars,
                    nLoads, nCycles, nFileSent,
                    inFlight, SendVars >>

\* l.markInitialLoadComplete(); if err != nil { return "", err }
MarkLoaded ==
    /\ pc = "mark"
    /\ LET m == markInitialLoadComplete(initialLoad)
       IN /\ initialLoad' = m.ch
          /\ nCloses' = IF m.closed THEN nCloses + 1 ELSE nCloses
          /\ closePanic' = (closePanic \/ m.panic)
    /\ IF loaded.err # ""
       THEN LoadAppletReturns(NoImage, loaded.err)
       ELSE pc' = "assign" /\ up' = up
    /\ UNCHANGED << HubVars, Settings, applet, configChanges, requestedChanges,
                    fileChanges, updatesChan, resultsChan, config, kind,
                    owner, loaded, expired, debugFile, CallerVars, ReaderVars,
                    nLoads, nCycles, nFileSent,
                    inFlight, SendVars >>

\* l.applet = *app
AssignApplet ==
    /\ pc = "assign"
    /\ applet' = loaded.app
    /\ pc' = "run"
    /\ UNCHANGED << HubVars, Settings, GateVars, configChanges, requestedChanges,
                    fileChanges, updatesChan, resultsChan, config, LoopLocals,
                    debugFile, CallerVars, ReaderVars, nLoads, nCycles,
                    nFileSent,
                    inFlight, SendVars >>

\* The deadline of the context given to RunWithConfig passes.
DeadlineExpires ==
    /\ pc = "run"
    /\ ~expired
    /\ expired' = TRUE
    /\ UNCHANGED << HubVars, Settings, applet, GateVars, configChanges, requestedChanges,
                    fileChanges, updatesChan, resultsChan, pc, config, up,
                    kind, owner, loaded, debugFile, CallerVars, ReaderVars,
                    nLoads, nCycles, nFileSent,
                    inFlight, SendVars >>

\* roots, err := l.applet.RunWithConfig(ctx, config) returns before the
\* deadline, with roots or with an error of the script.  Past the deadline
\* the only outcome of an execution is the timeout (RunCancelled).
RunReturns ==
    /\ pc = "run"
    /\ ~expired
    /\ \/ pc' = "encode" /\ up' = up
       \/ LoadAppletReturns(NoImage, "error running script")
    /\ UNCHANGED << HubVars, Settings, applet, GateVars, configChanges, requestedChanges,
                    fileChanges, updatesChan, resultsChan, config, kind, owner,
                    loaded, expired, debugFile, CallerVars, ReaderVars,
                    nLoads, nCycles, nFileSent,
                    inFlight, SendVars >>

\* fmt.Errorf("error running script: %w", err) of the context's cause,
\* fmt.Errorf("timeout after %dms", l.timeout).
TimeoutErr == "error running script: timeout"

\* RunWithConfig observes the cancelled context and returns its cause.
RunCancelled ==
    /\ pc = "run"
    /\ expired
    /\ LoadAppletReturns(NoImage, TimeoutErr)
    /\ UNCHANGED << HubVars, Settings, applet, GateVars, configChanges, requestedChanges,
                    fileChanges, updatesChan, resultsChan, config, kind, owner,
                    loaded, expired, debugFile, CallerVars, ReaderVars,
                    nLoads, nCycles, nFileSent,
                    inFlight, SendVars >>

\* The encoded image of what the applet renders with a configuration.
EncodedImage(app, cfg) == << "image", cfg >>

\* screens.EncodeGIF / EncodeWebP, then base64.
Encode ==
    /\ pc = "encode"
    /\ \/ LoadAppletReturns(EncodedImage(applet, config), "")
       \/ LoadAppletReturns(NoImage, "error rendering")
    /\ UNCHANGED << HubVars, Settings, applet, GateVars, configChanges, requestedChanges,
                    fileChanges, updatesChan, resultsChan, config, kind, owner,
                    loaded, expired, debugFile, CallerVars, ReaderVars,
                    nLoads, nCycles, nFileSent,
                    inFlight, SendVars >>

\* The loop is back at the select: the locals of the iteration are dead.
EndCycle ==
    /\ pc' = "select"
    /\ up' = ZeroUpdate
    /\ kind' = "none"
    /\ owner' = 0
    /\ loaded' = [app |-> ZeroApplet, err |-> ""]
    /\ expired' = FALSE
    /\ inFlight' = inFlight - 1
    /\ lastSent' = ZeroUpdate

\* Mutant of SendUpdates: the file-change case sends on resultsChan too.
SendUpdatesThenResults ==
    /\ pc = "sendUpdates"
    /\ Len(updatesChan) < UpdatesCap
    /\ updatesChan' = Append(updatesChan, up)
    /\ nSentUpdates' = nSentUpdates + 1
    /\ pc' = "sendResults"
    /\ lastSent' = up
    /\ UNCHANGED << LoopLocals, inFlight >>
    /\ UNCHANGED << HubVars, Settings, applet, GateVars, configChanges, requestedChanges,
                    fileChanges, resultsChan, config, debugFile, CallerVars,
                    ReaderVars, nLoads, nCycles, nFileSent, nSentResults >>

\* l.updatesChan <- up
SendUpdates ==
    /\ pc = "sendUpdates"
    /\ Len(updatesChan) < UpdatesCap
    /\ updatesChan' = Append(updatesChan, up)
    /\ nSentUpdates' = nSentUpdates + 1
    /\ IF kind = "request"
       THEN /\ pc' = "sendResults"
            /\ lastSent' = up
            /\ UNCHANGED << LoopLocals, inFlight >>
       ELSE EndCycle
    /\ UNCHANGED << HubVars, Settings, applet, GateVars, configChanges, requestedChanges,
                    fileChanges, resultsChan, config, debugFile, CallerVars,
                    ReaderVars, nLoads, nCycles, nFileSent, nSentResults >>

\* Mutant of SendResults: a failed cycle sends nothing on resultsChan.
SendResultsOnSuccess ==
    /\ pc = "sendResults"
    /\ up.Err = "" => Len(resultsChan) < ChanCap
    /\ resultsChan' = IF up.Err = "" THEN Append(resultsChan, up) ELSE resultsChan
    /\ nSentResults' = IF up.Err = "" THEN nSentResults + 1 ELSE nSentResults
    /\ EndCycle
    /\ UNCHANGED << HubVars, Settings, applet, GateVars, configChanges, requestedChanges,
                    fileChanges, updatesChan, config, debugFile, CallerVars,
                    ReaderVars, nLoads, nCycles, nFileSent, nSentUpdates >>

\* Mutant of SendResults: the Update is sent on resultsChan twice.
SendResultsTwice ==
    /\ pc = "sendResults"
    /\ Len(resultsChan) + 1 < ChanCap
    /\ resultsChan' = Append(Append(resultsChan, up), up)
    /\ nSentResults' = nSentResults + 2
    /\ EndCycle
    /\ UNCHANGED << HubVars, Settings, applet, GateVars, configChanges,
                    requestedChanges, fileChanges, updatesChan, config,
                    debugFile, CallerVars, ReaderVars, nLoads, nCycles,
                    nFileSent, nSentUpdates >>

\* l.resultsChan <- up
SendResults ==
    /\ pc = "sendResults"
    /\ Len(resultsChan) < ChanCap
    /\ resultsChan' = Append(resultsChan, up)
    /\ nSentResults' = nSentResults + 1
    /\ EndCycle
    /\ UNCHANGED << HubVars, Settings, applet, GateVars, configChanges, requestedChanges,
                    fileChanges, updatesChan, config, debugFile, CallerVars,
                    ReaderVars, nLoads, nCycles, nFileSent, nSentUpdates >>

\* ------------------------------------------- callers: Loader.LoadApplet

LoopVars == << pc, config, LoopLocals >>

\* A call is in progress from its first send to its return.
InCall(c) == cpc[c] \in {"sentConfig", "waiting"}

\* LoadApplet(config) is called: l.configChanges <- config
LoadAppletSendConfig(c) ==
    /\ cpc[c] = "idle"
    /\ Len(configChanges) < ChanCap
    /\ configChanges' = Append(configChanges, ConfigOf(c))
    /\ ccfg' = [ccfg EXCEPT ![c] = ConfigOf(c)]
    /\ cpc' = [cpc EXCEPT ![c] = "sentConfig"]
    /\ UNCHANGED << HubVars, Settings, applet, GateVars, requestedChanges, fileChanges,
                    updatesChan, resultsChan, LoopVars, debugFile, cres,
                    ReaderVars, nLoads, nCycles, nFileSent,
                    inFlight, SendVars >>

\* l.requestedChanges <- true
LoadAppletSendRequest(c) ==
    /\ cpc[c] = "sentConfig"
    /\ Len(requestedChanges) < ChanCap
    /\ requestedChanges' = Append(requestedChanges, c)
    /\ cpc' = [cpc EXCEPT ![c] = "waiting"]
    /\ UNCHANGED << HubVars, Settings, applet, GateVars, configChanges, fileChanges,
                    updatesChan, resultsChan, LoopVars, debugFile, ccfg, cres,
                    ReaderVars, nLoads, nCycles, nFileSent,
                    inFlight, SendVars >>

\* result := <-l.resultsChan; return result.Image, result.Err
LoadAppletReceive(c) ==
    /\ cpc[c] = "waiting"
    /\ resultsChan # << >>
    /\ cres' = [cres EXCEPT ![c] = Head(resultsChan)]
    /\ resultsChan' = Tail(resultsChan)
    /\ cpc' = [cpc EXCEPT ![c] = "returned"]
    /\ UNCHANGED << HubVars, Settings, applet, GateVars, configChanges, requestedChanges,
                    fileChanges, updatesChan, LoopVars, debugFile, ccfg,
                    ReaderVars, nLoads, nCycles, nFileSent,
                    inFlight, SendVars >>

\* ------------------------- readers: Loader.GetSchema, CallSchemaHandler

ReaderOps == {"GetSchema", "CallSchemaHandler"}

\* json.Marshal(&schema.Schema{})
EmptySchemaJSON == "empty schema"

\* What a call returns from the applet it reads.
GetSchemaResult(app) ==
    IF app.SchemaJSON # "" THEN app.SchemaJSON ELSE EmptySchemaJSON

CallSchemaHandlerResult(app) == << "handler", app.loaded >>

\* The call is made and reaches <-l.initialLoad.
ReaderCall(r, op) ==
    /\ rpc[r] = "idle"
    /\ rop' = [rop EXCEPT ![r] = op]
    /\ rpc' = [rpc EXCEPT ![r] = "gate"]
    /\ rwaited' = [rwaited EXCEPT ![r] = (initialLoad = "open")]
    /\ UNCHANGED << HubVars, Settings, applet, GateVars, configChanges, requestedChanges,
                    fileChanges, updatesChan, resultsChan, LoopVars, debugFile,
                    CallerVars, rres, nLoads, nCycles, nFileSent,
                    inFlight, SendVars >>

\* Mutant of ReaderPassGate: the call does not wait for the gate.
ReaderPassGateUnguarded(r) ==
    /\ rpc[r] = "gate"
    /\ rpc' = [rpc EXCEPT ![r] = "read"]
    /\ UNCHANGED << HubVars, Settings, applet, GateVars, configChanges, requestedChanges,
                    fileChanges, updatesChan, resultsChan, LoopVars, debugFile,
                    CallerVars, rop, rres, rwaited, nLoads, nCycles, nFileSent,
                    inFlight, SendVars >>

\* <-l.initialLoad: proceeds only when the channel is closed (nothing is
\* ever sent on it).
ReaderPassGate(r) ==
    /\ rpc[r] = "gate"
    /\ initialLoad = "closed"
    /\ rpc' = [rpc EXCEPT ![r] = "read"]
    /\ UNCHANGED << HubVars, Settings, applet, GateVars, configChanges, requestedChanges,
                    fileChanges, updatesChan, resultsChan, LoopVars, debugFile,
                    CallerVars, rop, rres, rwaited, nLoads, nCycles, nFileSent,
                    inFlight, SendVars >>

\* What a read of l.applet can give.  The read is not synchronised with the
\* loop's l.applet = *app: while the loop is at that assignment the read
\* gives the old applet, the new one, or some fields of each.
AppletRead ==
    IF pc = "assign"
    THEN { applet, loaded.app,
           [loaded |-> applet.loaded, SchemaJSON |-> loaded.app.SchemaJSON],
           [loaded |-> loaded.app.loaded, SchemaJSON |-> applet.SchemaJSON] }
    ELSE { applet }

\* The read of l.applet and the return.
ReaderReturn(r) ==
    /\ rpc[r] = "read"
    /\ \E a \in AppletRead :
          rres' = [rres EXCEPT ![r] =
                     IF rop[r] = "GetSchema"
                     THEN << GetSchemaResult(a) >>
                     ELSE CallSchemaHandlerResult(a)]
    /\ rpc' = [rpc EXCEPT ![r] = "idle"]
    /\ UNCHANGED << HubVars, Settings, applet, GateVars, configChanges, requestedChanges,
                    fileChanges, updatesChan, resultsChan, LoopVars, debugFile,
                    CallerVars, rop, rwaited, nLoads, nCycles, nFileSent,
                    inFlight, SendVars >>

\* ----------------------------------------------------------- environment

\* The file watcher signals a change: fileChanges <- true.
FileChange ==
    /\ nFileSent < MaxFileChanges
    /\ fileChanges < ChanCap
    /\ fileChanges' = fileChanges + 1
    /\ nFileSent' = nFileSent + 1
    /\ UNCHANGED << HubVars, Settings, applet, GateVars, configChanges, requestedChanges,
                    updatesChan, resultsChan, LoopVars, debugFile, CallerVars,
                    ReaderVars, nLoads, nCycles,
                    inFlight, SendVars >>

\* Browser.updateWatcher as the Loader sees it: an Update is taken off the
\* channel (case up := <-b.updateChan) and broadcast at once, to a hub
\* nobody is connected to.  UpdateWatcherTake and the Broadcast steps below
\* are the same code step by step, with the hub.
UpdateWatcherReceive ==
    /\ updatesChan # << >>
    /\ updatesChan' = Tail(updatesChan)
    /\ UNCHANGED << HubVars, Settings, applet, GateVars, configChanges, requestedChanges,
                    fileChanges, resultsChan, LoopVars, debugFile, CallerVars,
                    ReaderVars, nLoads, nCycles, nFileSent,
                    inFlight, SendVars >>

\* ------------------------------------------------ the hub: fanout.Fanout

\* Browser.serveGif: the Browser is made with the flag the Loader is made with.
serveGif == renderGif

\* A fanout.WebsocketEvent.  n is the number of the Update the event was made
\* of, counting the Updates the watcher has received; the code does not
\* carry it.
WebsocketEvent(type, msg, imgType, n) ==
    [Type |-> type, Message |-> msg, ImageType |-> imgType, n |-> n]

LoaderSide == << Settings, applet, GateVars, configChanges, requestedChanges,
                 fileChanges, resultsChan, LoopVars, debugFile, CallerVars,
                 ReaderVars, nLoads, nCycles, nFileSent, inFlight, SendVars >>

\* A blocking hand-over: the event is sent on the queue of every registered
\* connection, and a full queue makes the sender wait for its connection.
BroadcastWaits(e) ==
    /\ \A k \in Conns : cstate[k] = "live" => Len(queue[k]) < QueueCap
    /\ bcast' = Append(bcast, e)
    /\ queue' = [k \in Conns |->
                   IF cstate[k] = "live" THEN Append(queue[k], e) ELSE << >>]
    /\ UNCHANGED << cstate, got, regAt >>

\* Mutant of Broadcast: an event that does not fit a queue is dropped and
\* the connection stays registered.
BroadcastDropsOnFull(e) ==
    /\ bcast' = Append(bcast, e)
    /\ queue' = [k \in Conns |->
                   IF cstate[k] = "live" /\ Len(queue[k]) < QueueCap
                   THEN Append(queue[k], e)
                   ELSE queue[k]]
    /\ UNCHANGED << cstate, got, regAt >>

\* Fanout.Broadcast(e): e is put on the send queue of every registered
\* connection; a connection whose queue does not accept it is removed from
\* the registry.  The caller never waits.
Broadcast(e) ==
    /\ bcast' = Append(bcast, e)
    /\ queue' = [k \in Conns |->
                   IF cstate[k] = "live" /\ Len(queue[k]) < QueueCap
                   THEN Append(queue[k], e)
                   ELSE << >>]
    /\ cstate' = [k \in Conns |->
                   IF cstate[k] = "live" /\ Len(queue[k]) >= QueueCap
                   THEN "removed"
                   ELSE cstate[k]]
    /\ UNCHANGED << got, regAt >>

\* Fanout.NewClient(conn): the connection is registered, its queue empty.
NewClient(k) ==
    /\ cstate' = [cstate EXCEPT ![k] = "live"]
    /\ queue' = [queue EXCEPT ![k] = << >>]
    /\ regAt' = [regAt EXCEPT ![k] = Len(bcast)]
    /\ UNCHANGED got

\* Browser.websocketHandler: a viewer connects; without watch there is no
\* stream.
websocketHandler(k) ==
    /\ watch
    /\ cstate[k] = "none"
    /\ NewClient(k)
    /\ UNCHANGED << LoaderSide, updatesChan, WatcherVars >>

\* The hub writes the next queued event to connection k.
ClientWrite(k) ==
    /\ cstate[k] = "live"
    /\ queue[k] # << >>
    /\ got' = [got EXCEPT ![k] = Append(@, Head(queue[k]))]
    /\ queue' = [queue EXCEPT ![k] = Tail(@)]
    /\ UNCHANGED << LoaderSide, updatesChan, WatcherVars, cstate, regAt >>

\* Connection k is removed: the viewer went away or a write to it failed.
\* What was still queued for it is not delivered.
ClientRemove(k) ==
    /\ cstate[k] = "live"
    /\ cstate' = [cstate EXCEPT ![k] = "removed"]
    /\ queue' = [queue EXCEPT ![k] = << >>]
    /\ UNCHANGED << LoaderSide, updatesChan, WatcherVars, got, regAt >>

\* ------------------------------------------ Browser.updateWatcher, in steps

\* Where updateWatcher goes after the Broadcast of the Image event, and after
\* the one of the Error event.
AfterImage(u) ==
    IF u.Err # "" THEN "err" ELSE IF u.Schema # "" THEN "schema" ELSE "recv"

AfterErr(u) == IF u.Schema # "" THEN "schema" ELSE "recv"

\* case up := <-b.updateChan
UpdateWatcherTake ==
    /\ wpc = "recv"
    /\ updatesChan # << >>
    /\ wup' = Head(updatesChan)
    /\ updatesChan' = Tail(updatesChan)
    /\ taken' = Append(taken, Head(updatesChan))
    /\ wpc' = "image"
    /\ UNCHANGED << LoaderSide, bcast, ConnVars >>

\* Mutant of BroadcastImage: updateWatcher sends the Image event on the
\* queues of the connections itself, with a blocking send.
BroadcastImageWaits ==
    /\ wpc = "image"
    /\ BroadcastWaits(WebsocketEvent("image", wup.Image, ImageTypeOf(serveGif),
                                     Len(taken)))
    /\ wpc' = AfterImage(wup)
    /\ UNCHANGED << LoaderSide, updatesChan, wup, taken >>

\* Mutant of BroadcastImage: no Image event for an Update with a failure.
BroadcastImageOnSuccess ==
    /\ wpc = "image"
    /\ IF wup.Err = ""
       THEN Broadcast(WebsocketEvent("image", wup.Image, ImageTypeOf(serveGif),
                                     Len(taken)))
       ELSE UNCHANGED << bcast, ConnVars >>
    /\ wpc' = AfterImage(wup)
    /\ UNCHANGED << LoaderSide, updatesChan, wup, taken >>

\* b.fo.Broadcast(WebsocketEvent{Type: EventTypeImage, Message: up.Image,
\* ImageType: img_type})
BroadcastImage ==
    /\ wpc = "image"
    /\ Broadcast(WebsocketEvent("image", wup.Image, ImageTypeOf(serveGif),
                                Len(taken)))
    /\ wpc' = AfterImage(wup)
    /\ UNCHANGED << LoaderSide, updatesChan, wup, taken >>

\* if up.Err != nil { b.fo.Broadcast(WebsocketEvent{Type: EventTypeErr,
\* Message: up.Err.Error()}) }
BroadcastErr ==
    /\ wpc = "err"
    /\ Broadcast(WebsocketEvent("error", wup.Err, "", Len(taken)))
    /\ wpc' = AfterErr(wup)
    /\ UNCHANGED << LoaderSide, updatesChan, wup, taken >>

\* if up.Schema != "" { b.fo.Broadcast(WebsocketEvent{Type: EventTypeSchema,
\* Message: up.Schema}) }
BroadcastSchema ==
    /\ wpc = "schema"
    /\ Broadcast(WebsocketEvent("schema", wup.Schema, "", Len(taken)))
    /\ wpc' = "recv"
    /\ UNCHANGED << LoaderSide, updatesChan, wup, taken >>

\* ------------------------------------------------------------ specification

LoadAppletStep ==
    \/ LoadScript
    \/ MarkLoaded
    \/ AssignApplet
    \/ RunReturns
    \/ RunCancelled
    \/ Encode

LoopStep ==
    \/ RunSelectConfig
    \/ RunSelectRequest
    \/ RunSelectFile
    \/ LoadAppletStep
    \/ SendUpdates
    \/ SendResults

CallerStep ==
    \E c \in Callers :
        \/ LoadAppletSendConfig(c)
        \/ LoadAppletSendRequest(c)
        \/ LoadAppletReceive(c)

ReaderStep ==
    \E r \in Readers :
        \/ \E op \in ReaderOps : ReaderCall(r, op)
        \/ ReaderPassGate(r)
        \/ ReaderReturn(r)

\* The whole program.
Next ==
    \/ LoopStep
    \/ DeadlineExpires
    \/ CallerStep
    \/ ReaderStep
    \/ FileChange
    \/ UpdateWatcherReceive

Spec == Init /\ [][Next]_vars

\* GetSchema and CallSchemaHandler only read initialLoad and applet and write
\* only their own variables, so the loop and the LoadApplet callers behave the
\* same with and without them.  The claims about rendering are checked on
\* the program without schema readers, the claims about the Ready Gate on
\* the program with schema readers and a single LoadApplet caller.
LoadNext ==
    \/ LoopStep
    \/ DeadlineExpires
    \/ CallerStep
    \/ FileChange
    \/ UpdateWatcherReceive

SpecLoad == Init /\ [][LoadNext]_vars

GateCallerStep ==
    \/ LoadAppletSendConfig(1)
    \/ LoadAppletSendRequest(1)
    \/ LoadAppletReceive(1)

GateNext ==
    \/ LoopStep
    \/ DeadlineExpires
    \/ GateCallerStep
    \/ ReaderStep
    \/ FileChange
    \/ UpdateWatcherReceive

SpecGate == Init /\ [][GateNext]_vars

\* The program with the stream to the viewers: the loop, one LoadApplet
\* caller, the file watcher, updateWatcher step by step, the hub and its
\* connections.
WatcherStep ==
    \/ UpdateWatcherTake
    \/ BroadcastImage
    \/ BroadcastErr
    \/ BroadcastSchema

ConnStep ==
    \E k \in Conns :
        \/ websocketHandler(k)
        \/ ClientWrite(k)
        \/ ClientRemove(k)

HubNext ==
    \/ LoopStep
    \/ DeadlineExpires
    \/ GateCallerStep
    \/ FileChange
    \/ WatcherStep
    \/ ConnStep

SpecHub == Init /\ [][HubNext]_vars


\* The program with one connection, Slow, whose viewer stays connected and
\* never reads: nothing is ever written to it.
Slow == NumConns

SlowConnStep ==
    \E k \in Conns :
        \/ websocketHandler(k)
        \/ k # Slow /\ ClientWrite(k)
        \/ k # Slow /\ ClientRemove(k)

SlowNext ==
    \/ LoopStep
    \/ DeadlineExpires
    \/ GateCallerStep
    \/ FileChange
    \/ WatcherStep
    \/ SlowConnStep

SpecSlow == Init /\ [][SlowNext]_vars

\* ------------------------------------------------------------- NewLoader

\* The state when NewLoader has made the Loader value (l := &Loader{...}) and
\* has not yet looked at l.watch: no goroutine has the Loader.
BeforeNewLoader ==
    /\ \E a \in LoaderArguments :
         /\ watch = a.watch
         /\ renderGif = a.renderGif
         /\ configOutFile = a.configOutFile
    /\ applet = ZeroApplet
    /\ initialLoad = "open"
    /\ nCloses = 0
    /\ closePanic = FALSE
    /\ nLoads = 0
    /\ configChanges = << >>
    /\ requestedChanges = << >>
    /\ fileChanges = 0
    /\ updatesChan = << >>
    /\ resultsChan = << >>
    /\ pc = "new"
    /\ config = EmptyConfig
    /\ up = ZeroUpdate
    /\ kind = "none"
    /\ owner = 0
    /\ loaded = [app |-> ZeroApplet, err |-> ""]
    /\ expired = FALSE
    /\ debugFile = ""
    /\ cpc = [c \in Callers |-> "idle"]
    /\ ccfg = [c \in Callers |-> EmptyConfig]
    /\ cres = [c \in Callers |-> ZeroUpdate]
    /\ rpc = [r \in Readers |-> "idle"]
    /\ rop = [r \in Readers |-> "GetSchema"]
    /\ rres = [r \in Readers |-> << >>]
    /\ nCycles = 0
    /\ nFileSent = 0
    /\ inFlight = 0
    /\ nSentUpdates = 0
    /\ nSentResults = 0
    /\ lastSent = ZeroUpdate
    /\ rwaited = [r \in Readers |-> FALSE]
    /\ wpc = "recv"
    /\ wup = ZeroUpdate
    /\ taken = << >>
    /\ bcast = << >>
    /\ cstate = [k \in Conns |-> "none"]
    /\ queue = [k \in Conns |-> << >>]
    /\ got = [k \in Conns |-> << >>]
    /\ regAt = [k \in Conns |-> 0]

\* if !l.watch { app, err := loadScript(...); l.markInitialLoadComplete();
\* if err != nil { return nil, err } else { l.applet = *app } }; return l, nil.
\* pc is "select" when the Loader is returned (Run is started on it), and
\* "failed" when NewLoader returned the error and no Loader.
NewLoader ==
    /\ pc = "new"
    /\ IF watch
       THEN /\ pc' = "select"
            /\ UNCHANGED << applet, GateVars, nLoads >>
       ELSE /\ nLoads' = nLoads + 1
            /\ LET m == markInitialLoadComplete(initialLoad)
               IN /\ initialLoad' = m.ch
                  /\ nCloses' = IF m.closed THEN nCloses + 1 ELSE nCloses
                  /\ closePanic' = (closePanic \/ m.panic)
            /\ \/ \E s \in Schemas :
                    applet' = LoadedApplet(s) /\ pc' = "select"
               \/ applet' = applet /\ pc' = "failed"
    /\ UNCHANGED << HubVars, Settings, configChanges, requestedChanges,
                    fileChanges, updatesChan, resultsChan, config, LoopLocals,
                    debugFile, CallerVars, ReaderVars, nCycles, nFileSent,
                    inFlight, SendVars >>

\* The program from the call of NewLoader on: the other goroutines get the
\* Loader when NewLoader has returned one.
NewNext ==
    \/ NewLoader
    \/ pc \notin {"new", "failed"} /\ LoadNext

SpecNew == BeforeNewLoader /\ [][NewNext]_vars

\* ----------------------------------------------------------------- fairness

\* The goroutine of Run is scheduled, and a select with a ready case takes
\* one; Go picks among the ready cases at random, so none is passed over
\* forever.  Sends proceed when the channel has room.
LoopFairness ==
    /\ SF_vars(RunSelectConfig)
    /\ SF_vars(RunSelectRequest)
    /\ SF_vars(RunSelectFile)
    /\ WF_vars(LoadScript \/ MarkLoaded \/ AssignApplet \/ Encode
                  \/ SendUpdates \/ SendResults)

\* The goroutines inside LoadApplet are scheduled.
CallerFairness ==
    \A c \in Callers :
        WF_vars(LoadAppletSendRequest(c) \/ LoadAppletReceive(c))

\* The goroutines inside GetSchema / CallSchemaHandler are scheduled.
ReaderFairness ==
    \A r \in Readers : WF_vars(ReaderPassGate(r) \/ ReaderReturn(r))

\* The updates channel keeps being drained.
WatcherFairness == WF_vars(UpdateWatcherReceive)

\* Time passes: the deadline of a running execution arrives.
TimerFairness == WF_vars(DeadlineExpires)

\* What the code's own scheduling gives.  Whether RunWithConfig returns is
\* up to the applet, not to the Loader: no fairness is stated for it.
SpecLoadSched ==
    SpecLoad /\ LoopFairness /\ CallerFairness /\ WatcherFairness /\ TimerFairness

\* Executions terminate, the updates channel is drained, and the goroutines
\* are scheduled.  The conditions are weaker than the scheduler's: that the
\* loop takes some step when it can (a step of RunWithConfig returning
\* included) and that some caller takes a step when one can.
SpecLoadLive ==
    SpecLoad /\ WF_vars(LoopStep) /\ WF_vars(CallerStep) /\ WatcherFairness

SpecGateLive == SpecGate /\ ReaderFairness

\* The goroutine of updateWatcher is scheduled.
UpdateWatcherFairness == WF_vars(WatcherStep)

\* The hub keeps writing to the connections that accept writes.
DeliveryFairness == \A k \in Conns \ {Slow} : WF_vars(ClientWrite(k))

\* Executions terminate and every goroutine but the writer of Slow is
\* scheduled.
SpecSlowLive ==
    /\ SpecSlow
    /\ WF_vars(LoopStep)
    /\ WF_vars(GateCallerStep)
    /\ UpdateWatcherFairness
    /\ DeliveryFairness

\* ------------------------------------------------------- derived quantities

RECURSIVE SeqToSet(_)
SeqToSet(q) == IF q = << >> THEN {} ELSE {Head(q)} \cup SeqToSet(Tail(q))

\* The callers whose request trigger has been accepted into requestedChanges.
Triggered == { c \in Callers : cpc[c] \in {"waiting", "returned"} }

\* Triggers accepted into the queues so far.
AcceptedRequests == Cardinality(Triggered)
AcceptedTriggers == AcceptedRequests + nFileSent

\* On-demand cycles started so far.
RequestCycles == AcceptedRequests - Len(requestedChanges)

\* The loop is inside a cycle, before its send on updatesChan.
BeforeSend == pc \in {"loadScript", "mark", "assign", "run", "encode", "sendUpdates"}

\* Every Update a cycle has produced and that is still somewhere: in a
\* channel, in the loop's hands for sending, or returned to a caller.
ProducedUpdates ==
    SeqToSet(updatesChan) \cup SeqToSet(resultsChan)
        \cup { cres[c] : c \in { d \in Callers : cpc[d] = "returned" } }
        \cup (IF pc \in {"sendUpdates", "sendResults"} THEN {up} ELSE {})

\* ------------------------------------------------------------------- claims

\* C1. Correlation: the Update a LoadApplet caller receives is the one of
\* the cycle its own request trigger started.
C1_Correlation ==
    \A c \in Callers : cpc[c] = "returned" => cres[c].owner = c

\* C2. Own configuration: a LoadApplet(cfg) call made while no other
\* LoadApplet call is in progress (here: no other caller has called at all)
\* is served by a cycle that renders with cfg and writes cfg to the debug
\* file, and returns an image rendered with cfg.
NoOtherCall(c) == \A d \in Callers \ {c} : cpc[d] = "idle"

C2_OwnConfiguration ==
    /\ (kind = "request" /\ NoOtherCall(owner))
           => /\ config = ccfg[owner]
              /\ configOutFile => debugFile = Marshal(ccfg[owner])
    /\ \A c \in Callers :
           (cpc[c] = "returned" /\ NoOtherCall(c) /\ cres[c].Image # NoImage)
               => cres[c].Image = EncodedImage(applet, ccfg[c])

\* C3. Single-flight: at most one cycle is in progress, and the cycles
\* started are exactly the triggers taken out of the two trigger queues:
\* N accepted triggers give N cycles, configuration updates give none.
C3_SingleFlight ==
    /\ inFlight <= 1
    /\ (inFlight = 1) <=> (pc # "select")
    /\ nCycles + Len(requestedChanges) + fileChanges = AcceptedTriggers

C3_Witness ==
    /\ nCycles = NumCallers + MaxFileChanges
    /\ pc = "select"
    /\ \A c \in Callers : cpc[c] = "returned"

\* C6. Outcome exclusivity: every Update a cycle produced has an image or a
\* failure, never both and never neither.
C6_OutcomeExclusivity ==
    \A u \in ProducedUpdates : (u.Image # NoImage) # (u.Err # "")

C6_Witness ==
    /\ \E u \in SeqToSet(resultsChan) : u.Err # "" /\ u.Image = NoImage
    /\ \E u \in SeqToSet(updatesChan) :
           u.Image # NoImage /\ u.Err = "" /\ u.owner = 0

\* C7. Outcome routing: every cycle sends its Update once on updatesChan;
\* an on-demand cycle then sends the same Update once on resultsChan, a
\* file-change cycle sends nothing there.
C7_Counts ==
    /\ nSentUpdates = nCycles - (IF BeforeSend THEN 1 ELSE 0)
    /\ nSentResults = RequestCycles - (IF kind = "request" THEN 1 ELSE 0)
    /\ \A u \in SeqToSet(resultsChan) : u.owner # 0
    /\ pc = "sendResults" => (kind = "request" /\ lastSent = up)

C7_Sends ==
    /\ Len(updatesChan') > Len(updatesChan)
           => /\ nSentResults' = nSentResults
              /\ updatesChan' = Append(updatesChan, up)
    /\ Len(resultsChan') > Len(resultsChan)
           => /\ resultsChan' = Append(resultsChan, lastSent)
              /\ nSentUpdates' = nSentUpdates
              /\ lastSent.owner # 0

C7_OutcomeRouting == []C7_Counts /\ [][C7_Sends]_vars

C7_Witness ==
    /\ pc = "select"
    /\ nSentResults >= 1
    /\ nSentUpdates = nSentResults + 1

\* C4. Ready Gate one-shot: close(initialLoad) is executed at most once and
\* never on a closed channel, however often markInitialLoadComplete is called,
\* and a released gate stays released.
C4_GateState ==
    /\ nCloses <= 1
    /\ ~closePanic
    /\ (initialLoad = "closed") <=> (nCloses = 1)

C5_PassOnlyReleased ==
    \A r \in Readers :
        (rpc[r] = "gate" /\ rpc'[r] # "gate") => initialLoad = "closed"

C5_NoBlockingAfterRelease ==
    \A r \in Readers :
        /\ rpc[r] = "read" => initialLoad = "closed"
        /\ (rpc[r] = "gate" /\ initialLoad = "closed") => ENABLED ReaderPassGate(r)

C5_GateBlocking ==
    /\ [][C5_PassOnlyReleased]_vars
    /\ []C5_NoBlockingAfterRelease
    /\ \A r \in Readers :
           (rpc[r] = "gate" /\ initialLoad = "closed") ~> (rpc[r] = "read")

\* A call that found the gate pending has got past it.
C5_Witness == \E r \in Readers : rwaited[r] /\ rpc[r] = "read"

\* C8. Loop survival: the step that follows the sends of a failure Update
\* takes the loop back to the select, and again and again every trigger
\* accepted into a queue so far has had its cycle, run to the end (no trigger
\* is left unprocessed for ever).
CompletedCycles == nCycles - inFlight

FailureSent ==
    /\ up.Err # ""
    /\ \/ pc = "sendUpdates" /\ kind = "file"
       \/ pc = "sendResults"

C8_BackToSelect == (FailureSent /\ pc' # pc) => pc' = "select"

C8_LoopSurvival ==
    /\ [][C8_BackToSelect]_vars
    /\ [](pc \in {"select", "loadScript", "mark", "assign", "run", "encode",
                  "sendUpdates", "sendResults"})
    /\ []<>(CompletedCycles = AcceptedTriggers)

\* A caller has the failure of an earlier cycle and a later cycle has got to
\* its send.
C8_Witness ==
    /\ \E c \in Callers : cpc[c] = "returned" /\ cres[c].Err # ""
    /\ pc = "sendUpdates"
    /\ up.Err = ""

C10_TimeoutDoesNotStall ==
    /\ (pc = "run" /\ expired)
           ~> (pc = "sendUpdates" /\ up.Err = TimeoutErr /\ up.Image = NoImage)
    /\ (pc = "run" /\ expired) ~> (pc = "select")

\* ------------------------------------------------------- claims on the hub

IsPrefix(a, b) == Len(a) <= Len(b) /\ a = SubSeq(b, 1, Len(a))

\* The events of the n-th Update u, in the order the claim gives them.
ExpectedEvents(u, n) ==
    << WebsocketEvent("image", u.Image, ImageTypeOf(serveGif), n) >>
      \o (IF u.Err # "" THEN << WebsocketEvent("error", u.Err, "", n) >>
                        ELSE << >>)
      \o (IF u.Schema # "" THEN << WebsocketEvent("schema", u.Schema, "", n) >>
                           ELSE << >>)

\* The events of the first n Updates of a sequence of Updates.
RECURSIVE ExpectedStream(_, _)
ExpectedStream(ups, n) ==
    IF n = 0 THEN << >>
    ELSE ExpectedStream(ups, n - 1) \o ExpectedEvents(ups[n], n)

\* C11. Hub event order: what the watcher has broadcast is, Update by Update
\* in the order received, an Image event (also for a failure, with the empty
\* image), then an Error event iff the Update has a failure, then a Schema
\* event iff it has a schema; when the watcher takes the next Update all
\* events of the Updates before it have been broadcast.
C11_HubEventOrder ==
    /\ IsPrefix(bcast, ExpectedStream(taken, Len(taken)))
    /\ wpc = "recv" => bcast = ExpectedStream(taken, Len(taken))
    /\ wpc # "recv" =>
          /\ taken # << >>
          /\ wup = taken[Len(taken)]
          /\ IsPrefix(ExpectedStream(taken, Len(taken) - 1), bcast)
          /\ bcast # ExpectedStream(taken, Len(taken))

\* A failed Update and then one with a schema have been broadcast in full.
C11_Witness ==
    /\ wpc = "recv"
    /\ Len(taken) = 2
    /\ taken[1].Err # "" /\ taken[1].Image = NoImage
    /\ taken[2].Schema # ""
    /\ Len(bcast) = 4

\* What has been broadcast since connection k was registered.
Since(k) == SubSeq(bcast, regAt[k] + 1, Len(bcast))

\* The events of q that were made of the n-th Update.
OfOutcome(q, n) == SelectSeq(q, LAMBDA e : e.n = n)

\* The number of events broadcast for the Updates before the n-th.
BroadcastBefore(n) == Len(SelectSeq(bcast, LAMBDA e : e.n < n))

\* The n-th Update has been broadcast in full.
OutcomeBroadcast(n) == n < Len(taken) \/ (n = Len(taken) /\ wpc = "recv")

\* C12. Fan-out completeness: a registered connection has received or has in
\* its queue exactly what was broadcast since its registration, in that
\* order, so for an outcome broadcast while K connections are registered all
\* K get the same sequence (Image, [Error], [Schema]); a connection that was
\* removed has received a prefix of it, and nothing is queued for it.  A
\* registered connection with a queued event can be written to.
C12_FanOutCompleteness ==
    \A k \in Conns :
        /\ cstate[k] = "live" => got[k] \o queue[k] = Since(k)
        /\ cstate[k] # "none" => IsPrefix(got[k], Since(k))
        /\ cstate[k] # "live" => queue[k] = << >>
        /\ cstate[k] = "none" => got[k] = << >>
        /\ (cstate[k] = "live" /\ queue[k] # << >>) => ENABLED ClientWrite(k)
        /\ \A n \in 1 .. Len(taken) :
             (cstate[k] # "none" /\ regAt[k] <= BroadcastBefore(n)
                  /\ OutcomeBroadcast(n))
                => /\ IsPrefix(OfOutcome(got[k], n),
                               ExpectedEvents(taken[n], n))
                   /\ cstate[k] = "live"
                         => OfOutcome(got[k] \o queue[k], n)
                                = ExpectedEvents(taken[n], n)

\* Two connections registered before an outcome with a failure have both
\* received its Image and Error events; and: a connection was removed with
\* only the Image event of such an outcome received.
C12_Witness ==
    /\ wpc = "recv"
    /\ Len(taken) >= 1
    /\ taken[1].Err # ""
    /\ \A k \in Conns :
          /\ cstate[k] = "live"
          /\ regAt[k] = 0
          /\ Len(got[k]) >= 2
          /\ OfOutcome(got[k], 1) = ExpectedEvents(taken[1], 1)

C12_WitnessRemoved ==
    /\ wpc = "recv"
    /\ Len(taken) >= 1
    /\ taken[1].Err # ""
    /\ \E k \in Conns :
          /\ cstate[k] = "removed"
          /\ regAt[k] = 0
          /\ Len(got[k]) = 1

\* C13. Slow-consumer isolation: with a registered connection that is never
\* written to, a Broadcast the watcher has reached can always be executed
\* and the other connections can always be written to; and again and again
\* every Update sent has been broadcast in full, the other connections have
\* been written all that was queued for them, every accepted trigger has had
\* its cycle and no LoadApplet call is waiting.
C13_NothingWaits ==
    /\ wpc # "recv" => ENABLED WatcherStep
    /\ \A k \in Conns \ {Slow} :
          (cstate[k] = "live" /\ queue[k] # << >>) => ENABLED ClientWrite(k)
    /\ got[Slow] = << >>

C13_Drained ==
    /\ wpc = "recv"
    /\ updatesChan = << >>
    /\ \A k \in Conns \ {Slow} : queue[k] = << >>
    /\ CompletedCycles = AcceptedTriggers
    /\ \A c \in Callers : ~InCall(c)

ConfigDequeued == Len(configChanges') < Len(configChanges)

C14_Frame ==
    /\ ConfigDequeued =>
          /\ pc = "select" /\ pc' = "select"
          /\ config' = Head(configChanges)
          /\ configChanges' = Tail(configChanges)
          /\ UNCHANGED << updatesChan, resultsChan, nSentUpdates, nSentResults,
                          nCycles, inFlight, nLoads, applet, initialLoad,
                          nCloses, debugFile, requestedChanges, fileChanges,
                          up, kind >>
    /\ config' # config => ConfigDequeued
    /\ pc # "select" => config' = config
    /\ (pc = "encode" /\ pc' = "sendUpdates" /\ up'.Image # NoImage)
          => up'.Image = EncodedImage(applet, config)

C14_ConfigUpdate == [][C14_Frame]_vars

\* The loop has rendered with the configuration of caller 1 and has then
\* taken the one of caller 2, which has no key of the first.
C14_Witness ==
    /\ pc = "select"
    /\ config = ConfigOf(2)
    /\ cpc[1] = "returned"
    /\ cres[1].Image = EncodedImage(applet, ConfigOf(1))
    /\ nCycles = 1

\* C15. Reload failure: with watch, the step that follows a failed
\* loadScript leaves the gate released (releasing it if it was pending) and
\* makes the reload error, without image or schema, the Update of the cycle;
\* the cycle never gets to the assignment of the applet, the execution or the
\* encoding, and the applet stays what it was from the reload to the end of
\* the cycle.
ReloadFailed == loaded.err # ""

C15_AfterFailure ==
    /\ (pc = "mark" /\ ReloadFailed /\ pc' # pc) =>
          /\ watch
          /\ initialLoad' = "closed"
          /\ nCloses' = (IF initialLoad = "open" THEN nCloses + 1 ELSE nCloses)
          /\ pc' = "sendUpdates"
          /\ up'.Err = loaded.err
          /\ up'.Image = NoImage
          /\ up'.Schema = ""
    /\ (pc = "loadScript" \/ ReloadFailed) => applet' = applet
    /\ nLoads' # nLoads => (pc = "loadScript" /\ pc' = "mark")

C15_FailedCycle ==
    ReloadFailed =>
        /\ watch
        /\ pc \in {"mark", "sendUpdates", "sendResults"}
        /\ pc # "mark" => (up.Err = loaded.err /\ up.Image = NoImage)

C15_ReloadFailure == []C15_FailedCycle /\ [][C15_AfterFailure]_vars

\* An applet was loaded by an earlier cycle and the reload of this cycle has
\* failed; and: the first reload failed and released the gate.
C15_Witness ==
    /\ ReloadFailed
    /\ applet.loaded
    /\ pc = "sendUpdates"
    /\ kind = "request"

C15_WitnessFirstReload ==
    /\ ReloadFailed
    /\ nLoads = 1
    /\ pc = "sendUpdates"
    /\ initialLoad = "closed"

\* C16. Schema presence: an Update with a schema is the Update of a
\* file-change cycle that succeeded (it has an image and no failure), also
\* with watch, where on-demand cycles reload too; and the watcher never
\* broadcasts both an Error and a Schema event for one Update.
SeenUpdates ==
    ProducedUpdates \cup SeqToSet(taken)
        \cup (IF wpc # "recv" THEN {wup} ELSE {})

C16_SchemaPresence ==
    /\ \A u \in SeenUpdates :
          u.Schema # "" => (u.owner = 0 /\ u.Err = "" /\ u.Image # NoImage)
    /\ (kind = "request" /\ pc \in {"sendUpdates", "sendResults"})
          => up.Schema = ""
    /\ \A i \in 1 .. Len(bcast) :
          bcast[i].Type = "schema" =>
              /\ taken[bcast[i].n].owner = 0
              /\ \A j \in 1 .. Len(bcast) :
                    bcast[j].n = bcast[i].n => bcast[j].Type # "error"

\* With watch and an applet that has a schema, a successful on-demand Update
\* went out without schema and a Schema event was broadcast for a file-change
\* Update.
C16_Witness ==
    /\ watch
    /\ applet.SchemaJSON # ""
    /\ \E i \in 1 .. Len(taken) :
          taken[i].owner # 0 /\ taken[i].Image # NoImage
    /\ \E i \in 1 .. Len(bcast) : bcast[i].Type = "schema"

\* C17. Debug write ordering: with configOutFile set, the step that starts
\* an on-demand cycle leaves in the file exactly the JSON of the retained
\* configuration, whatever the file held, and the file holds it for the
\* whole cycle, from before the reload and the execution, which render with
\* that configuration; no other step writes the file, and without
\* configOutFile nothing is written.
C17_WriteStep ==
    /\ (kind # "request" /\ kind' = "request") =>
          /\ pc = "select"
          /\ pc' = LoadAppletEntry
          /\ nLoads' = nLoads
          /\ config' = config
          /\ configOutFile => debugFile' = Marshal(config)
    /\ debugFile' # debugFile =>
          (configOutFile /\ kind # "request" /\ kind' = "request")

C17_DuringCycle ==
    /\ (configOutFile /\ kind = "request") => debugFile = Marshal(config)
    /\ ~configOutFile => debugFile = ""

C17_DebugWriteOrdering == []C17_DuringCycle /\ [][C17_WriteStep]_vars

\* A second on-demand cycle has overwritten what the first wrote, and a
\* file-change cycle has run.
C17_Witness ==
    /\ configOutFile
    /\ kind = "request"
    /\ pc = LoadAppletEntry
    /\ debugFile = Marshal(ConfigOf(2))
    /\ \E c \in Callers :
          cpc[c] = "returned" /\ cres[c].Image = EncodedImage(applet, ConfigOf(1))
    /\ nCycles = 3

\* C18. Non-watch mode: without watch, NewLoader calls loadScript once and
\* leaves the gate released, whether it returns a Loader or the error of the
\* load; a Loader it returns has the applet loaded, and from then on no step
\* calls loadScript or changes the applet or the gate.  The state NewLoader
\* returns a Loader in is an initial state of the program.
C18_AfterNewLoader ==
    (~watch /\ pc # "new") =>
        /\ initialLoad = "closed"
        /\ nCloses = 1
        /\ ~closePanic
        /\ nLoads = 1
        /\ pc \notin {"loadScript", "mark", "assign"}
        /\ pc # "failed" => applet.loaded
        /\ pc = "failed" => applet = ZeroApplet

C18_NoReload ==
    /\ (~watch /\ pc # "new") =>
          (applet' = applet /\ nLoads' = nLoads /\ initialLoad' = initialLoad)
    /\ (pc = "new" /\ pc' = "select") => Init'

C18_NonWatchMode == []C18_AfterNewLoader /\ [][C18_NoReload]_vars

\* Without watch, two on-demand cycles and a file-change cycle have run and
\* both calls have returned; and: NewLoader failed.
C18_Witness ==
    /\ ~watch
    /\ pc = "select"
    /\ nCycles = NumCallers + MaxFileChanges
    /\ \A c \in Callers : cpc[c] = "returned"
    /\ config # EmptyConfig
    /\ nLoads = 1

C18_WitnessFailed == ~watch /\ pc = "failed" /\ initialLoad = "closed"

\* C19. Gate and applet publication: with watch, once the first reload has
\* succeeded, a GetSchema / CallSchemaHandler call that waited at the gate
\* returns what the applet of that reload gives (GetSchema its schema, not
\* the empty-schema default), and no call is at its read of l.applet while
\* the loop is at l.applet = *app.
FirstReloadOk ==
    /\ watch
    /\ nLoads = 1
    /\ initialLoad = "closed"
    /\ IF pc = "select" THEN applet.loaded ELSE loaded.err = ""

FirstReloadApp == IF pc = "select" THEN applet ELSE loaded.app

C19_GatePublication ==
    /\ \A r \in Readers :
          (FirstReloadOk /\ rwaited[r] /\ rpc[r] = "idle") =>
              rres[r] = (IF rop[r] = "GetSchema"
                         THEN << GetSchemaResult(FirstReloadApp) >>
                         ELSE CallSchemaHandlerResult(FirstReloadApp))
    /\ \A r \in Readers : rpc[r] = "read" => pc # "assign"

\* The part of C19 about what a call returns, alone: a GetSchema call that
\* waited at the gate returns the schema of the first reload.
C19_SchemaObserved ==
    \A r \in Readers :
        (FirstReloadOk /\ rwaited[r] /\ rpc[r] = "idle" /\ rop[r] = "GetSchema")
            => rres[r] = << GetSchemaResult(FirstReloadApp) >>

\* C20. Result channel accounting, as claimed: the Updates queued in
\* resultsChan plus the request triggers queued in requestedChanges are as
\* many as the LoadApplet callers that have sent their trigger and have not
\* received a result.
WaitingCallers == { c \in Callers : cpc[c] = "waiting" }

C20_QueuedOnly ==
    Len(resultsChan) + Len(requestedChanges) = Cardinality(WaitingCallers)

\* C20, amended: the Updates queued in resultsChan, plus the request
\* triggers queued, plus the on-demand cycle in progress if there is one (its
\* trigger is dequeued and its Update not yet sent on resultsChan), are as
\* many as the callers waiting for a result; so resultsChan holds no Update
\* without a caller waiting for it, and when the loop is at its send on
\* resultsChan a caller is waiting for the Update, beyond those for the
\* Updates queued, and the send or a receive can be executed.
OnDemandInProgress == IF kind = "request" THEN 1 ELSE 0

C20_ResultAccounting ==
    /\ Len(resultsChan) + Len(requestedChanges) + OnDemandInProgress
          = Cardinality(WaitingCallers)
    /\ Len(resultsChan) <= Cardinality(WaitingCallers)
    /\ pc = "sendResults" =>
          /\ Len(resultsChan) < Cardinality(WaitingCallers)
          /\ ENABLED (SendResults \/ \E c \in Callers : LoadAppletReceive(c))

\* One Update waits in resultsChan for one caller while the cycle of the
\* other caller's trigger is at its send on resultsChan.
C20_Witness ==
    /\ Len(resultsChan) = 1
    /\ pc = "sendResults"
    /\ Cardinality(WaitingCallers) = 2

====
